---------------------------- MODULE Spec2Model ----------------------------
(***************************************************************************)
(* The e-mail verification endpoint (app/api/verify-email/route.ts), the   *)
(* bulk results table (components/email/bulk/BulkResultsDisplay.tsx) and   *)
(* the history lists (app/api/list-bulk-results, list-single-results) and   *)
(* the bulk upload form (components/email/bulk/BulkUploadForm.tsx).        *)
(*                                                                         *)
(* A JavaScript string is a sequence of one-character strings.  A JSON     *)
(* object is a record holding exactly the fields the object has: a field   *)
(* the code leaves out is not in the record's DOMAIN.                      *)
(***************************************************************************)
EXTENDS Integers, Sequences, FiniteSets, TLC

VARIABLES
    \* ---- verification endpoint: one request at a time
    stage,      \* "idle" | "mx" (awaiting resolveMx) | "ses" (awaiting SES) | "done"
    request,    \* [userId, bodyOk, email] of the request being served
    frame,      \* the handler's locals across its awaits
    calls,      \* the network calls the request has made so far, in order
    response,   \* the JSON answer and its status; [status |-> 0] while none
    \* ---- bulk results table
    results,        \* the parent's record list (useState in Bulk-find-email.tsx)
    filterStatus,   \* the status filter of the table
    verifyingEmail, \* row index being verified, or NoRow
    retryingEmail,  \* row index being retried, or NoRow
    verifyingBatch, \* verifyAllEmails is running
    run,            \* the closure of the running (or last) verifyAllEmails call
    pending,        \* closures of the single-row requests in flight, in click order
    lastOp,         \* what the single-row request that just completed did
    clock,          \* the value the next new Date() yields
    clicks,         \* clicks on the table so far
    \* ---- history lists
    listing,        \* the call of a list route being served
    \* ---- bulk upload form
    upload          \* the form's state, its timers and its running submit

endpointVars == <<stage, request, frame, calls, response>>
bulkVars == <<results, filterStatus, verifyingEmail, retryingEmail,
              verifyingBatch, run, pending, lastOp, clock, clicks>>
listVars == <<listing>>
uploadVars == <<upload>>
vars == <<stage, request, frame, calls, response, results, filterStatus,
          verifyingEmail, retryingEmail, verifyingBatch, run, pending, lastOp, clock, clicks,
          listing, upload>>

-----------------------------------------------------------------------------
(* Bounds of the model.                                                    *)

\* Every string over Alphabet of at most this length is a request address.
MaxLen == 6
\* Longest record list the table is opened with.
MaxRecords == 2
\* Clicks on the table (Verify All, a row's Verify or Retry, a filter button)
\* in one behaviour; caps the requests in flight, retryCount and the clock.
MaxClicks == 2

-----------------------------------------------------------------------------
(* Strings.                                                                *)

\* JavaScript null, where a string may stand: no string equals it.
Null == <<"null">>

UpperCase ==
    <<"A","B","C","D","E","F","G","H","I","J","K","L","M",
      "N","O","P","Q","R","S","T","U","V","W","X","Y","Z">>
LowerCase ==
    <<"a","b","c","d","e","f","g","h","i","j","k","l","m",
      "n","o","p","q","r","s","t","u","v","w","x","y","z">>
Digit == {"0","1","2","3","4","5","6","7","8","9"}
Letter == {UpperCase[i] : i \in 1..26} \cup {LowerCase[i] : i \in 1..26}

\* String.prototype.toLowerCase
toLowerCase(s) ==
    [i \in 1..Len(s) |->
        IF \E k \in 1..26 : UpperCase[k] = s[i]
        THEN LowerCase[CHOOSE k \in 1..26 : UpperCase[k] = s[i]]
        ELSE s[i]]

\* String.prototype.split with a one-character separator
RECURSIVE split(_, _)
split(s, sep) ==
    IF \A i \in 1..Len(s) : s[i] # sep
    THEN <<s>>
    ELSE LET k == CHOOSE i \in 1..Len(s) :
                      s[i] = sep /\ \A j \in 1..(i - 1) : s[j] # sep
         IN  <<SubSeq(s, 1, k - 1)>> \o split(SubSeq(s, k + 1, Len(s)), sep)

\* Array.prototype.join
RECURSIVE join(_, _)
join(parts, sep) ==
    IF Len(parts) = 0 THEN <<>>
    ELSE IF Len(parts) = 1 THEN parts[1]
    ELSE parts[1] \o sep \o join(Tail(parts), sep)

\* String.prototype.startsWith
startsWith(s, prefix) ==
    Len(prefix) <= Len(s) /\ SubSeq(s, 1, Len(prefix)) = prefix

\* Array.prototype.includes on an array of strings
includes(list, s) == \E i \in 1..Len(list) : list[i] = s

-----------------------------------------------------------------------------
(* The pure checks of the verification route.                              *)

commonDomainTypos ==
    << <<<<"g","a","m","i","l",".","c","o","m">>, <<"g","m","a","i","l",".","c","o","m">>>>,
       <<<<"g","m","i","a","l",".","c","o","m">>, <<"g","m","a","i","l",".","c","o","m">>>>,
       <<<<"g","m","a","i",".","c","o","m">>, <<"g","m","a","i","l",".","c","o","m">>>>,
       <<<<"g","m","a","l",".","c","o","m">>, <<"g","m","a","i","l",".","c","o","m">>>>,
       <<<<"h","o","t","m","a","l",".","c","o","m">>, <<"h","o","t","m","a","i","l",".","c","o","m">>>>,
       <<<<"h","o","t","m","i","a","l",".","c","o","m">>, <<"h","o","t","m","a","i","l",".","c","o","m">>>>,
       <<<<"h","o","t","m","i","l",".","c","o","m">>, <<"h","o","t","m","a","i","l",".","c","o","m">>>>,
       <<<<"o","u","t","l","o","k",".","c","o","m">>, <<"o","u","t","l","o","o","k",".","c","o","m">>>>,
       <<<<"o","u","t","l","l","o","k",".","c","o","m">>, <<"o","u","t","l","o","o","k",".","c","o","m">>>>,
       <<<<"y","a","h","h","o",".","c","o","m">>, <<"y","a","h","o","o",".","c","o","m">>>>,
       <<<<"y","a","h","o",".","c","o","m">>, <<"y","a","h","o","o",".","c","o","m">>>> >>

commonTldTypos ==
    << <<<<"c","o","n">>, <<"c","o","m">>>>,
       <<<<"c","m","o">>, <<"c","o","m">>>>,
       <<<<"o","c","m">>, <<"c","o","m">>>>,
       <<<<"o","m">>, <<"c","o","m">>>>,
       <<<<"n","t","e">>, <<"n","e","t">>>>,
       <<<<"o","g","r">>, <<"o","r","g">>>> >>

rolePrefixes ==
    << <<"a","d","m","i","n">>, <<"a","d","m","i","n","i","s","t","r","a","t","o","r">>,
       <<"w","e","b","m","a","s","t","e","r">>, <<"p","o","s","t","m","a","s","t","e","r">>,
       <<"h","o","s","t","m","a","s","t","e","r">>, <<"s","u","p","p","o","r","t">>,
       <<"h","e","l","p">>, <<"c","o","n","t","a","c","t">>,
       <<"i","n","f","o">>, <<"i","n","f","o","r","m","a","t","i","o","n">>,
       <<"s","a","l","e","s">>, <<"m","a","r","k","e","t","i","n","g">>,
       <<"a","b","u","s","e">>, <<"s","e","c","u","r","i","t","y">>,
       <<"p","r","i","v","a","c","y">>, <<"l","e","g","a","l">>,
       <<"b","i","l","l","i","n","g">>, <<"h","r">>,
       <<"j","o","b","s">>, <<"c","a","r","e","e","r","s">>,
       <<"f","e","e","d","b","a","c","k">>, <<"m","e","d","i","a">>,
       <<"p","r","e","s","s">>, <<"n","o","r","e","p","l","y">>,
       <<"n","o","-","r","e","p","l","y">>, <<"d","e","v">>,
       <<"t","e","s","t">>, <<"d","e","m","o">>,
       <<"o","f","f","i","c","e">>, <<"t","e","a","m">>,
       <<"h","e","l","l","o">>, <<"m","a","i","l">> >>

disposableDomains ==
    << <<"m","a","i","l","i","n","a","t","o","r",".","c","o","m">>,
       <<"t","e","m","p","m","a","i","l",".","c","o","m">>,
       <<"t","e","m","p","-","m","a","i","l",".","o","r","g">>,
       <<"g","u","e","r","r","i","l","l","a","m","a","i","l",".","c","o","m">>,
       <<"t","h","r","o","w","a","w","a","y","m","a","i","l",".","c","o","m">>,
       <<"1","0","m","i","n","u","t","e","m","a","i","l",".","c","o","m">>,
       <<"y","o","p","m","a","i","l",".","c","o","m">>,
       <<"t","r","a","s","h","m","a","i","l",".","c","o","m">>,
       <<"d","i","s","p","o","s","t","a","b","l","e",".","c","o","m">>,
       <<"s","h","a","r","k","l","a","s","e","r","s",".","c","o","m">>,
       <<"g","r","r",".","l","a">>,
       <<"g","u","e","r","r","i","l","l","a","m","a","i","l",".","i","n","f","o">>,
       <<"f","a","k","e","i","n","b","o","x",".","c","o","m">>,
       <<"m","a","i","l","n","e","s","i","a",".","c","o","m">>,
       <<"m","a","i","l","c","a","t","c","h",".","c","o","m">>,
       <<"t","e","m","p","r",".","e","m","a","i","l">>,
       <<"t","e","m","p","m","a","i","l",".","n","e","t">>,
       <<"d","i","s","c","a","r","d",".","e","m","a","i","l">>,
       <<"m","a","i","l","d","r","o","p",".","c","c">>,
       <<"g","e","t","a","i","r","m","a","i","l",".","c","o","m">> >>

personalDomains ==
    << <<"g","m","a","i","l",".","c","o","m">>,
       <<"o","u","t","l","o","o","k",".","c","o","m">>,
       <<"h","o","t","m","a","i","l",".","c","o","m">>,
       <<"y","a","h","o","o",".","c","o","m">> >>

SampleAddresses ==
    << <<"b","o","b","@","c","o","r","p",".","i","o">>,
       <<"a","d","m","i","n","@","c","o","r","p",".","i","o">>,
       <<"I","n","f","o","@","c","o","r","p",".","i","o">>,
       <<"b","o","b","@","G","m","a","i","l",".","c","o","m">>,
       <<"b","o","b","@","g","m","a","i","l",".","c","o","m">>,
       <<"b","o","b","@","g","a","m","i","l",".","c","o","m">>,
       <<"b","o","b","@","c","o","r","p",".","c","o","n">>,
       <<"b","o","b","@","g","r","r",".","l","a">>,
       <<"b","o","b","@","G","R","R",".","L","A">>,
       <<"h","r","@","g","r","r",".","l","a">>,
       <<"b","o","b","@","x",".","g","r","r",".","l","a">>,
       <<"a","d","m","i","n">>,
       <<"A","d","m","i","n","@","c","o","r","p">>,
       <<"b","o","b","@","c","o","r","p">>,
       <<"b","o","b","@","@","g","r","r",".","l","a">>,
       <<"b","o"," ","b","@","c","o","r","p",".","i","o">>,
       <<"@","c","o","r","p",".","i","o">>,
       <<"b","o","b","@","c","o","r","p",".","c">>,
       <<"b","o","b","@","g","a","m","i","l",".","c","o","m",".">>,
       <<"i","n","f","o","@","g","a","m","i","l","_",".","c","o","n">>,
       <<"b","o","b","@","c","o","r","p",".","c","o","n","s","t","r","u","c","t","o","r">>,
       <<"i","n","f","o","x","y","z","@","c","o","r","p",".","i","o">> >>

\* obj[key] on an object literal whose values are strings: the own entry; else
\* what Object.prototype holds under that key (template-literal text of it);
\* else undefined, which is Null here
lookup(dict, key) ==
    IF \E i \in 1..Len(dict) : dict[i][1] = key
    THEN dict[CHOOSE i \in 1..Len(dict) : dict[i][1] = key][2]
    ELSE IF key = <<"c","o","n","s","t","r","u","c","t","o","r">>
    THEN <<"function Object() { [native code] }">>
    ELSE IF key = <<"_","_","p","r","o","t","o","_","_">>
    THEN <<"[object Object]">>
    ELSE Null

suggestEmailCorrection(email) ==
    LET parts == split(email, "@") IN
    IF Len(parts) # 2 THEN Null
    ELSE
      LET localPart   == parts[1]
          domainPart  == parts[2]
          domainParts == split(domainPart, ".")
          tld         == domainParts[Len(domainParts)]
          mainDomain  == join(SubSeq(domainParts, 1, Len(domainParts) - 1), <<".">>)
      IN  IF lookup(commonDomainTypos, toLowerCase(domainPart)) # Null
          THEN localPart \o <<"@">> \o lookup(commonDomainTypos, toLowerCase(domainPart))
          ELSE IF Len(domainParts) >= 2 /\ lookup(commonTldTypos, toLowerCase(tld)) # Null
          THEN localPart \o <<"@">> \o mainDomain \o <<".">>
                         \o lookup(commonTldTypos, toLowerCase(tld))
          ELSE Null

\* mutant: the local part is not lower-cased before the prefix test
isRoleBasedEmailCaseSensitive(email) ==
    LET localPart == split(email, "@")[1] IN
    IF localPart = <<>> THEN FALSE
    ELSE \E i \in 1..Len(rolePrefixes) : startsWith(localPart, rolePrefixes[i])

\* mutant: the local part must be a role name, not merely start with one
isRoleBasedEmailWholeToken(email) ==
    LET localPart == toLowerCase(split(email, "@")[1]) IN
    IF localPart = <<>> THEN FALSE
    ELSE \E i \in 1..Len(rolePrefixes) : localPart = rolePrefixes[i]

isRoleBasedEmail(email) ==
    LET localPart == toLowerCase(split(email, "@")[1]) IN
    IF localPart = <<>> THEN FALSE
    ELSE \E i \in 1..Len(rolePrefixes) : startsWith(localPart, rolePrefixes[i])

LocalChar(c) == c \in Letter \cup Digit \cup {".", "_", "%", "+", "-"}
DomainChar(c) == c \in Letter \cup Digit \cup {".", "-"}

\* /^[a-zA-Z0-9._%+-]+@[a-zA-Z0-9.-]+\.[a-zA-Z]{2,}$/.test(email)
isValidEmail(email) ==
    \E at \in 1..Len(email), dot \in 1..Len(email) :
        /\ email[at] = "@"
        /\ at > 1
        /\ \A i \in 1..(at - 1) : LocalChar(email[i])
        /\ email[dot] = "."
        /\ dot > at + 1
        /\ \A i \in (at + 1)..(dot - 1) : DomainChar(email[i])
        /\ Len(email) - dot >= 2
        /\ \A i \in (dot + 1)..Len(email) : email[i] \in Letter

\* mutant: the domain is not lower-cased before the list lookup
isDisposableEmailCaseSensitive(email) ==
    LET parts == split(email, "@") IN
    IF Len(parts) < 2 THEN FALSE
    ELSE includes(disposableDomains, parts[2])

isDisposableEmail(email) ==
    LET parts == split(email, "@") IN
    IF Len(parts) < 2 THEN FALSE
    ELSE includes(disposableDomains, toLowerCase(parts[2]))

\* resolveMx either yields records, yields none, or rejects
MxOutcomes == {"records", "empty", "error"}

\* mutant: the catch block of the MX lookup does not yield false
hasMxRecordsUnlessEmpty(outcome) == outcome # "empty"

\* records && records.length > 0, and false from the catch block
hasMxRecords(outcome) == outcome = "records"

\* sesClient.send either resolves or rejects
SesOutcomes == {"sent", "error"}
verifyEmailWithSES(outcome) == outcome = "sent"

\* initSESClient() either hands out a client or throws
SesInitOutcomes == {"client", "throws"}

emailQualityOf(domain) ==
    IF includes(personalDomains, toLowerCase(domain)) THEN "personal" ELSE "business"

\* mutant: validity forgets the deliverability answer
isValidOfNotDisposable(isVerified, isDisposable) == ~isDisposable

\* const isValid = isVerified && !isDisposable
isValidOf(isVerified, isDisposable) == isVerified /\ ~isDisposable

confidenceOf(isVerified, hasMx) ==
    IF isVerified THEN "high" ELSE IF hasMx THEN "medium" ELSE "low"

-----------------------------------------------------------------------------
(* The answers of POST /api/verify-email.                                  *)

NoResponse == [status |-> 0]

UnauthorizedResponse == [status |-> 401, error |-> "Unauthorized"]

RequiredResponse ==
    [status |-> 400, valid |-> FALSE, message |-> "Email is required"]

InvalidFormatResponse(email) ==
    [status     |-> 200,
     valid      |-> FALSE,
     message    |-> "Invalid email format",
     suggestion |-> suggestEmailCorrection(email),
     details    |-> [format     |-> FALSE,
                     domain     |-> FALSE,
                     disposable |-> FALSE,
                     mxRecords  |-> FALSE,
                     roleBased  |-> isRoleBasedEmail(email)]]

InvalidDomainResponse ==
    [status  |-> 200,
     valid   |-> FALSE,
     message |-> "Invalid email domain",
     details |-> [format     |-> TRUE,
                  domain     |-> FALSE,
                  disposable |-> FALSE,
                  mxRecords  |-> FALSE]]

NoMxResponse(f) ==
    [status       |-> 200,
     valid        |-> FALSE,
     message      |-> "Email domain does not have valid mail servers",
     isVerified   |-> FALSE,
     emailQuality |-> f.emailQuality,
     suggestion   |-> f.suggestion,
     details      |-> [format     |-> TRUE,
                       domain     |-> TRUE,
                       disposable |-> f.isDisposable,
                       mxRecords  |-> FALSE,
                       roleBased  |-> f.isRole]]

DisposableResponse(f) ==
    [status       |-> 200,
     valid        |-> FALSE,
     message      |-> "Disposable email addresses are not allowed",
     isVerified   |-> FALSE,
     emailQuality |-> f.emailQuality,
     suggestion   |-> f.suggestion,
     details      |-> [format     |-> TRUE,
                       domain     |-> TRUE,
                       disposable |-> TRUE,
                       mxRecords  |-> f.hasMx,
                       roleBased  |-> f.isRole]]

VerifiedResponse(email, f, isVerified) ==
    LET isValid == isValidOf(isVerified, f.isDisposable) IN
    [status       |-> 200,
     valid        |-> isValid,
     message      |-> IF isValid THEN "Email appears to be valid and deliverable"
                      ELSE IF f.isDisposable
                      THEN "Email appears to be from a disposable domain"
                      ELSE IF ~isVerified THEN "Email verification failed"
                      ELSE "",
     email        |-> email,
     isVerified   |-> isVerified,
     emailQuality |-> f.emailQuality,
     suggestion   |-> f.suggestion,
     details      |-> [format     |-> TRUE,
                       domain     |-> TRUE,
                       disposable |-> f.isDisposable,
                       mxRecords  |-> f.hasMx,
                       verified   |-> isVerified,
                       quality    |-> f.emailQuality,
                       roleBased  |-> f.isRole],
     confidence   |-> confidenceOf(isVerified, f.hasMx)]

\* the catch block; email is '' when the body could not be read
ErrorResponse(email) ==
    [status  |-> 500,
     valid   |-> FALSE,
     message |-> "An error occurred while verifying the email",
     details |-> [errorType |-> "UNKNOWN",
                  format    |-> isValidEmail(email),
                  roleBased |-> isRoleBasedEmail(email)]]

-----------------------------------------------------------------------------
(* POST /api/verify-email, one step per stretch between awaits.            *)

Alphabet == {"h", "r", "@", "."}
GeneratedAddresses == UNION {[1..n -> Alphabet] : n \in 0..MaxLen}
Addresses == GeneratedAddresses \cup {SampleAddresses[i] : i \in 1..Len(SampleAddresses)}

\* userId: auth() found a user; bodyOk: request.json() did not throw.  The
\* address is read only when both hold.
Requests ==
    {[userId |-> TRUE, bodyOk |-> TRUE, email |-> e] : e \in Addresses}
    \cup {[userId |-> FALSE, bodyOk |-> TRUE, email |-> <<>>],
          [userId |-> TRUE, bodyOk |-> FALSE, email |-> <<>>]}

Frame0 ==
    [domain |-> <<>>, isDisposable |-> FALSE, isRole |-> FALSE,
     suggestion |-> Null, hasMx |-> FALSE, emailQuality |-> "null"]

Answer(f, c, r) == [stage |-> "done", frame |-> f, calls |-> c, response |-> r]
Await(s, f, c) == [stage |-> s, frame |-> f, calls |-> c, response |-> NoResponse]

\* the record of a call to a collaborator, and of how it came back
Call(fn, arg) == [fn |-> fn, arg |-> arg, result |-> "pending"]
Returned(c, result) == [c EXCEPT ![Len(c)].result = result]

\* mutant: the checks run on the corrected domain when there is a suggestion
domainOfSuggestion(email) ==
    IF suggestEmailCorrection(email) = Null THEN split(email, "@")[2]
    ELSE split(suggestEmailCorrection(email), "@")[2]

\* const domain = email.split('@')[1]
domainOf(email) == split(email, "@")[2]

\* from the call to the first await (resolveMx), or to the early return;
\* wellFormed is the outcome of the format test
ReceiveWith(req, wellFormed) ==
    IF ~req.userId THEN Answer(Frame0, <<>>, UnauthorizedResponse)
    ELSE IF ~req.bodyOk THEN Answer(Frame0, <<>>, ErrorResponse(<<>>))
    ELSE IF req.email = <<>> THEN Answer(Frame0, <<>>, RequiredResponse)
    ELSE IF ~wellFormed
    THEN Answer(Frame0, <<>>, InvalidFormatResponse(req.email))
    ELSE LET domain == domainOf(req.email) IN
         IF domain = <<>> THEN Answer(Frame0, <<>>, InvalidDomainResponse)
         ELSE Await("mx",
                    [Frame0 EXCEPT !.domain = domain,
                                   !.isDisposable = isDisposableEmail(req.email),
                                   !.isRole = isRoleBasedEmail(req.email),
                                   !.suggestion = suggestEmailCorrection(req.email)],
                    <<Call("resolveMx", domain)>>)

\* mutant: the format test only looks for an "@"
ReceiveAnyAt(req) == ReceiveWith(req, Len(split(req.email, "@")) >= 2)

Receive(req) == ReceiveWith(req, isValidEmail(req.email))

\* from the MX answer to the next await (sesClient.send), or to a return
MxResolved(req, f, c, mx, init) ==
    LET g == [f EXCEPT !.hasMx = hasMxRecords(mx),
                       !.emailQuality = emailQualityOf(f.domain)]
        c1 == Returned(c, mx)
        c2 == Append(c1, [Call("initSESClient", <<>>) EXCEPT !.result = init])
    IN  IF ~g.hasMx THEN Answer(g, c1, NoMxResponse(g))
        ELSE IF g.isDisposable THEN Answer(g, c1, DisposableResponse(g))
        ELSE IF init = "throws" THEN Answer(g, c2, ErrorResponse(req.email))
        ELSE IF ~isValidEmail(req.email)
        THEN Answer(g, c2, VerifiedResponse(req.email, g, FALSE))
        ELSE Await("ses", g, Append(c2, Call("ses.send", req.email)))

\* from the SES answer to the return
SesReturned(req, f, c, ses) ==
    Answer(f, Returned(c, ses), VerifiedResponse(req.email, f, verifyEmailWithSES(ses)))

Become(n) ==
    /\ stage' = n.stage
    /\ frame' = n.frame
    /\ calls' = n.calls
    /\ response' = n.response

POST_Receive ==
    /\ stage = "idle"
    /\ Become(Receive(request))
    /\ UNCHANGED request
    /\ UNCHANGED bulkVars
    /\ UNCHANGED listVars
    /\ UNCHANGED uploadVars

POST_MxResolved ==
    /\ stage = "mx"
    /\ \E mx \in MxOutcomes, init \in SesInitOutcomes :
          Become(MxResolved(request, frame, calls, mx, init))
    /\ UNCHANGED request
    /\ UNCHANGED bulkVars
    /\ UNCHANGED listVars
    /\ UNCHANGED uploadVars

POST_SesReturned ==
    /\ stage = "ses"
    /\ \E ses \in SesOutcomes :
          Become(SesReturned(request, frame, calls, ses))
    /\ UNCHANGED request
    /\ UNCHANGED bulkVars
    /\ UNCHANGED listVars
    /\ UNCHANGED uploadVars

-----------------------------------------------------------------------------
(* The older verification route (part_002): the format test, then the      *)
(* provider call; no MX lookup, no disposable list, no suggestion.         *)

\* /^[^\s@]+@[^\s@]+\.[^\s@]+$/.test(email)
isValidEmail002(email) ==
    /\ \A i \in 1..Len(email) : email[i] # " "
    /\ Cardinality({i \in 1..Len(email) : email[i] = "@"}) = 1
    /\ \E at \in 2..Len(email), dot \in 1..(Len(email) - 1) :
          /\ email[at] = "@"
          /\ email[dot] = "."
          /\ dot > at + 1

\* ['gmail.com', 'outlook.com', 'hotmail.com', 'yahoo.com'].includes(domain)
emailQualityOf002(domain) ==
    IF includes(personalDomains, domain) THEN "personal" ELSE "business"

RequiredResponse002 == [status |-> 400, error |-> "Email is required"]

InvalidFormatResponse002 == [status |-> 400, error |-> "Invalid email format"]

VerifiedResponse002(email, isVerified) ==
    [status       |-> 200,
     email        |-> email,
     isVerified   |-> isVerified,
     emailQuality |-> emailQualityOf002(split(email, "@")[2])]

ErrorResponse002 ==
    [status    |-> 500,
     error     |-> "An error occurred while verifying the email",
     errorType |-> "UNKNOWN"]

\* from the call to the await of sesClient.send, or to an early return
Receive002(req, init) ==
    IF ~req.userId THEN Answer(Frame0, <<>>, UnauthorizedResponse)
    ELSE IF ~req.bodyOk THEN Answer(Frame0, <<>>, ErrorResponse002)
    ELSE IF req.email = <<>> THEN Answer(Frame0, <<>>, RequiredResponse002)
    ELSE IF ~isValidEmail002(req.email)
    THEN Answer(Frame0, <<>>, InvalidFormatResponse002)
    ELSE LET c == <<[Call("initSESClient", <<>>) EXCEPT !.result = init]>> IN
         IF init = "throws" THEN Answer(Frame0, c, ErrorResponse002)
         ELSE Await("ses", Frame0, Append(c, Call("ses.send", req.email)))

\* from the SES answer to the return
SesReturned002(req, f, c, ses) ==
    Answer(f, Returned(c, ses), VerifiedResponse002(req.email, verifyEmailWithSES(ses)))

POST002_Receive ==
    /\ stage = "idle"
    /\ \E init \in SesInitOutcomes : Become(Receive002(request, init))
    /\ UNCHANGED request
    /\ UNCHANGED bulkVars
    /\ UNCHANGED listVars
    /\ UNCHANGED uploadVars

POST002_SesReturned ==
    /\ stage = "ses"
    /\ \E ses \in SesOutcomes :
          Become(SesReturned002(request, frame, calls, ses))
    /\ UNCHANGED request
    /\ UNCHANGED bulkVars
    /\ UNCHANGED listVars
    /\ UNCHANGED uploadVars

-----------------------------------------------------------------------------
(* What fetch('/api/verify-email') and fetch('/api/find-email') hand to    *)
(* the table.                                                              *)

\* the whole handler on one request, given what its network calls yield
Serve(req, mx, init, ses) ==
    LET a == Receive(req) IN
    IF a.stage = "done" THEN a.response
    ELSE LET b == MxResolved(req, a.frame, a.calls, mx, init) IN
         IF b.stage = "done" THEN b.response
         ELSE SesReturned(req, b.frame, b.calls, ses).response

\* fetch either rejects (threw) or resolves with the handler's answer
VerifyOutcomes(email) ==
    {[threw |-> TRUE, status |-> 0, data |-> NoResponse]}
    \cup {[threw |-> FALSE, status |-> r.status, data |-> r] :
            r \in {Serve([userId |-> u, bodyOk |-> TRUE, email |-> email], mx, init, ses) :
                     u \in BOOLEAN, mx \in MxOutcomes,
                     init \in SesInitOutcomes, ses \in SesOutcomes}}

\* addresses the discovery service hands out
BulkEmails ==
    { <<"b","o","b","@","c","o","r","p",".","i","o">>,
      <<"o","'","b","@","c","o","r","p",".","i","o">> }

\* the answers per address the table can ask about
VerifyOutcomesOf == [e \in BulkEmails |-> VerifyOutcomes(e)]

\* Response.ok
ok(outcome) == outcome.status >= 200 /\ outcome.status <= 299

Undefined == "undefined"

\* data.isVerified as the table reads it from the JSON body
dataIsVerified(data) ==
    IF "isVerified" \in DOMAIN data
    THEN (IF data.isVerified THEN "true" ELSE "false")
    ELSE Undefined

\* data.emailQuality || old
dataEmailQualityOr(data, old) ==
    IF "emailQuality" \in DOMAIN data THEN data.emailQuality ELSE old

PersonalEmailLists == { <<>>, << <<"b","@","g","m","a","i","l",".","c","o","m">> >> }

\* fetch('/api/find-email'): rejects, or resolves with a status and a body
FindOutcomes ==
    {[threw |-> TRUE, status |-> 0, email |-> Null, personalEmails |-> <<>>],
     [threw |-> FALSE, status |-> 500, email |-> Null, personalEmails |-> <<>>]}
    \cup {[threw |-> FALSE, status |-> 200, email |-> e, personalEmails |-> <<>>] :
            e \in BulkEmails}
    \cup {[threw |-> FALSE, status |-> 200, email |-> Null, personalEmails |-> p] :
            p \in PersonalEmailLists}

-----------------------------------------------------------------------------
(* The bulk results table.  Rows and list positions count from 1; NoRow    *)
(* stands for null.                                                        *)

NoRow == 0
Persons == <<"p1", "p2", "p3", "p4", "p5", "p6", "p7", "p8">>

\* a record as the bulk lookup returns it: not yet verified, never retried
FreshRecord(k, foundEmail) ==
    [person         |-> Persons[k],
     foundEmail     |-> foundEmail,
     personalEmails |-> <<>>,
     isVerified     |-> Undefined,
     emailQuality   |-> Undefined,
     retryCount     |-> 0,
     lastRetry      |-> 0]

FreshLists ==
    UNION {{[k \in 1..n |-> FreshRecord(k, f[k])] :
              f \in [1..n -> BulkEmails \cup {Null}]} : n \in 1..MaxRecords}

FilterStatuses == {"all", "verified", "unverified", "not-found"}

\* the predicate of results.filter in filteredResults (searchTerm is '')
shown(record, status) ==
    /\ ~(status = "verified" /\ record.isVerified # "true")
    /\ ~(status = "unverified" /\ record.isVerified # "false")
    /\ ~(status = "not-found" /\ record.foundEmail # Null)

\* the list positions of the rows filteredResults() yields, in order
RECURSIVE positions(_, _, _)
positions(list, status, k) ==
    IF k > Len(list) THEN <<>>
    ELSE (IF shown(list[k], status) THEN <<k>> ELSE <<>>)
         \o positions(list, status, k + 1)

filteredResults(list, status) == positions(list, status, 1)

\* mutant: the filter forgets that a record may be verified already
toVerifyAnyFound(record) == record.foundEmail # Null

\* the filter of verifyAllEmails
toVerify(record) == record.foundEmail # Null /\ record.isVerified = Undefined

RECURSIVE emailsToVerify(_)
emailsToVerify(list) ==
    IF list = <<>> THEN <<>>
    ELSE (IF toVerify(Head(list)) THEN <<Head(list).foundEmail>> ELSE <<>>)
         \o emailsToVerify(Tail(list))

\* mutant: the last record with the address is taken
findLastIndex(list, email) ==
    IF \E k \in 1..Len(list) : list[k].foundEmail = email
    THEN CHOOSE k \in 1..Len(list) :
            list[k].foundEmail = email
            /\ \A j \in (k + 1)..Len(list) : list[j].foundEmail # email
    ELSE 0

\* results.findIndex((r) => r.foundEmail === email), 0 for -1
findIndex(list, email) ==
    IF \E k \in 1..Len(list) : list[k].foundEmail = email
    THEN CHOOSE k \in 1..Len(list) :
            list[k].foundEmail = email /\ \A j \in 1..(k - 1) : list[j].foundEmail # email
    ELSE 0

\* { ...record, isVerified: data.isVerified,
\*   emailQuality: data.emailQuality || record.emailQuality }
withVerification(record, data) ==
    [record EXCEPT !.isVerified = dataIsVerified(data),
                   !.emailQuality = dataEmailQualityOr(data, record.emailQuality)]

\* the record retryFindEmail stores at updatedResults[index]
withRetry(old, record, data, now) ==
    [old EXCEPT !.foundEmail = data.email,
                !.personalEmails = data.personalEmails,
                !.isVerified = Undefined,
                !.emailQuality = Undefined,
                !.retryCount = record.retryCount + 1,
                !.lastRetry = now]

PublishInterval == 5

\* mutant: the loop publishes after the 5th, 10th, ... record and the last
publishesEveryFifth(i, n) == (i + 1) % PublishInterval = 0 \/ i = n - 1

\* i % 5 === 0 || i === emailsToVerify.length - 1, i counting from 0
publishes(i, n) == i % PublishInterval = 0 \/ i = n - 1

\* the closure of a verifyAllEmails call, with its history: requests (the
\* addresses asked about so far), outcomes (how each answered request ended),
\* published (the list last passed to setResults), publishedAt (after how
\* many handled records the loop called setResults), done (the call returned)
NoRun ==
    [results |-> <<>>, emailsToVerify |-> <<>>, updatedResults |-> <<>>, i |-> 0,
     verifiedCount |-> 0, failedCount |-> 0,
     requests |-> <<>>, outcomes |-> <<>>, published |-> <<>>, publishedAt |-> <<>>,
     done |-> FALSE]

NoOp == [op |-> "none"]

\* how a verification request ended, as the loop tells the cases apart
outcomeKind(outcome) ==
    IF outcome.threw THEN "threw"
    ELSE IF ~ok(outcome) THEN "notOk"
    ELSE IF dataIsVerified(outcome.data) = "true" THEN "verified"
    ELSE "unverified"

\* mutant: the table stores whatever came back
storedAlways(outcome) == TRUE

\* whether the table stores the answer: response.ok, and fetch did not reject
stored(outcome) == ~outcome.threw /\ ok(outcome)

\* verifiedCount after one iteration of the loop of verifyAllEmails
verifiedAfter(verifiedCount, outcome) ==
    IF stored(outcome) /\ dataIsVerified(outcome.data) = "true"
    THEN verifiedCount + 1 ELSE verifiedCount

\* mutant: only a rejected fetch counts as a failure
failedAfterCatchOnly(failedCount, outcome) ==
    IF outcome.threw THEN failedCount + 1 ELSE failedCount

\* failedCount after one iteration: the else branch of data.isVerified, the
\* else branch of response.ok, and the catch block each add one
failedAfter(failedCount, outcome) ==
    IF stored(outcome) /\ dataIsVerified(outcome.data) = "true"
    THEN failedCount ELSE failedCount + 1

\* updatedResults after one iteration
updatedAfter(updatedResults, recordIndex, outcome) ==
    IF stored(outcome)
    THEN [updatedResults EXCEPT ![recordIndex] = withVerification(@, outcome.data)]
    ELSE updatedResults

\* the closure of a finished run is dropped at the next step
settled == IF run.done THEN NoRun ELSE run

\* mutant: the requests of all selected records are sent at once
everyRequest(emails) == emails

\* the requests sent when the loop first reaches its await: that of i = 0
firstRequest(emails) == <<emails[1]>>

\* the click on "Verify All" up to the first await: the early returns, or
\* the first request of the loop.  findIndex never yields -1 for an address
\* taken from the same list, so the loop's continue is never taken.
verifyAllEmails_Start ==
    /\ clicks < MaxClicks
    /\ clicks' = clicks + 1
    /\ ~verifyingBatch
    /\ Len(results) > 0
    /\ LET emails == emailsToVerify(results) IN
       IF emails = <<>>
       THEN verifyingBatch' = FALSE /\ run' = settled
       ELSE /\ verifyingBatch' = TRUE
            /\ run' = [NoRun EXCEPT !.results = results,
                                    !.emailsToVerify = emails,
                                    !.updatedResults = results,
                                    !.requests = firstRequest(emails)]
    /\ lastOp' = NoOp
    /\ UNCHANGED <<results, filterStatus, verifyingEmail, retryingEmail, pending, clock>>
    /\ UNCHANGED endpointVars
    /\ UNCHANGED listVars
    /\ UNCHANGED uploadVars

\* mutant: the flag is not cleared after the loop
verifyingBatchStuck(last) == TRUE

\* verifyingBatch once an answer is handled: setVerifyingBatch(false) after
\* the loop
verifyingBatchAfter(last) == ~last

\* from the answer to request i to the next request, or to the end of the run
verifyAllEmails_Response ==
    /\ verifyingBatch
    /\ run.i < Len(run.emailsToVerify)
    /\ LET i == run.i
           n == Len(run.emailsToVerify)
           email == run.emailsToVerify[i + 1]
           recordIndex == findIndex(run.results, email)
       IN  \E outcome \in VerifyOutcomesOf[email] :
             LET updated == updatedAfter(run.updatedResults, recordIndex, outcome)
                 last == (i + 1 = n)
                 publish == publishes(i, n) \/ last
             IN  /\ run' = [run EXCEPT
                              !.updatedResults = updated,
                              !.verifiedCount = verifiedAfter(@, outcome),
                              !.failedCount = failedAfter(@, outcome),
                              !.i = i + 1,
                              !.requests = IF last THEN @
                                           ELSE Append(@, run.emailsToVerify[i + 2]),
                              !.outcomes = Append(@, outcomeKind(outcome)),
                              !.published = IF publish THEN updated ELSE @,
                              !.publishedAt = IF publishes(i, n) THEN Append(@, i + 1)
                                              ELSE @,
                              !.done = last]
                 /\ results' = IF publish THEN updated ELSE results
                 /\ verifyingBatch' = verifyingBatchAfter(last)
    /\ lastOp' = NoOp
    /\ UNCHANGED <<filterStatus, verifyingEmail, retryingEmail, pending, clock>>
    /\ UNCHANGED clicks
    /\ UNCHANGED endpointVars
    /\ UNCHANGED listVars
    /\ UNCHANGED uploadVars

remove(seq, k) == SubSeq(seq, 1, k - 1) \o SubSeq(seq, k + 1, Len(seq))

\* the closure a click on a row button creates: the row's record and index
\* (its place among the rows shown) and the results of that render;
\* position is the record's place in the full list
closure(op, row) ==
    LET position == filteredResults(results, filterStatus)[row] IN
    [op |-> op, record |-> results[position], index |-> row,
     results |-> results, position |-> position]

\* click on a row's Verify button, up to the await
verifyEmail_Start ==
    /\ clicks < MaxClicks
    /\ clicks' = clicks + 1
    /\ \E row \in 1..Len(filteredResults(results, filterStatus)) :
          /\ closure("verify", row).record.foundEmail # Null
          /\ verifyingEmail # row
          /\ verifyingEmail' = row
          /\ pending' = Append(pending, closure("verify", row))
    /\ lastOp' = NoOp
    /\ UNCHANGED <<results, filterStatus, retryingEmail, verifyingBatch, clock>>
    /\ run' = settled
    /\ UNCHANGED endpointVars
    /\ UNCHANGED listVars
    /\ UNCHANGED uploadVars

\* the answer to a row's verification request
verifyEmail_Response ==
    /\ \E k \in 1..Len(pending) :
          /\ pending[k].op = "verify"
          /\ \E outcome \in VerifyOutcomesOf[pending[k].record.foundEmail] :
                LET c == pending[k] IN
                /\ results' = IF stored(outcome)
                              THEN [c.results EXCEPT
                                      ![c.index] = withVerification(@, outcome.data)]
                              ELSE results
                /\ lastOp' = [op |-> "verify", stored |-> stored(outcome),
                              failed |-> outcome.threw \/ ~ok(outcome),
                              position |-> c.position]
          /\ pending' = remove(pending, k)
    /\ verifyingEmail' = NoRow
    /\ UNCHANGED <<filterStatus, retryingEmail, verifyingBatch, clock>>
    /\ run' = settled
    /\ UNCHANGED clicks
    /\ UNCHANGED endpointVars
    /\ UNCHANGED listVars
    /\ UNCHANGED uploadVars

\* click on a row's Retry button, up to the await
retryFindEmail_Start ==
    /\ clicks < MaxClicks
    /\ clicks' = clicks + 1
    /\ \E row \in 1..Len(filteredResults(results, filterStatus)) :
          /\ retryingEmail # row
          /\ retryingEmail' = row
          /\ pending' = Append(pending, closure("retry", row))
    /\ lastOp' = NoOp
    /\ UNCHANGED <<results, filterStatus, verifyingEmail, verifyingBatch, clock>>
    /\ run' = settled
    /\ UNCHANGED endpointVars
    /\ UNCHANGED listVars
    /\ UNCHANGED uploadVars

\* the answer to a row's discovery request
retryFindEmail_Response ==
    /\ \E k \in 1..Len(pending) :
          /\ pending[k].op = "retry"
          /\ \E outcome \in FindOutcomes :
                LET c == pending[k] IN
                /\ results' = IF stored(outcome)
                              THEN [c.results EXCEPT
                                      ![c.index] = withRetry(@, c.record, outcome, clock)]
                              ELSE results
                /\ clock' = IF stored(outcome) THEN clock + 1 ELSE clock
                /\ lastOp' = [op |-> "retry", stored |-> stored(outcome),
                              failed |-> outcome.threw \/ ~ok(outcome),
                              position |-> c.position,
                              retryCount |-> results[c.position].retryCount,
                              email |-> outcome.email,
                              personalEmails |-> outcome.personalEmails,
                              at |-> clock]
          /\ pending' = remove(pending, k)
    /\ retryingEmail' = NoRow
    /\ UNCHANGED <<filterStatus, verifyingEmail, verifyingBatch>>
    /\ run' = settled
    /\ UNCHANGED clicks
    /\ UNCHANGED endpointVars
    /\ UNCHANGED listVars
    /\ UNCHANGED uploadVars

\* the status filter buttons
setFilterStatus ==
    /\ clicks < MaxClicks
    /\ clicks' = clicks + 1
    /\ \E status \in FilterStatuses \ {filterStatus} : filterStatus' = status
    /\ lastOp' = NoOp
    /\ UNCHANGED <<results, verifyingEmail, retryingEmail, verifyingBatch, pending, clock>>
    /\ run' = settled
    /\ UNCHANGED endpointVars
    /\ UNCHANGED listVars
    /\ UNCHANGED uploadVars

-----------------------------------------------------------------------------
(* GET /api/list-bulk-results and GET /api/list-single-results: the        *)
(* history lists.  Both routes list the keys under the caller's prefix,    *)
(* fetch every blob at once (Promise.all) and answer when all are settled. *)

\* Most keys one listing holds.
MaxKeys == 2

\* String.prototype.replace(pattern, '') with a string pattern: the first
\* occurrence is removed
replace(s, pattern) ==
    LET n == Len(pattern)
        at(i) == SubSeq(s, i, i + n - 1) = pattern
    IN  IF \E i \in 1..(Len(s) - n + 1) : at(i)
        THEN LET k == CHOOSE i \in 1..(Len(s) - n + 1) :
                          at(i) /\ \A j \in 1..(i - 1) : ~at(j)
             IN  SubSeq(s, 1, k - 1) \o SubSeq(s, k + n, Len(s))
        ELSE s

unknown == <<"u","n","k","n","o","w","n">>

\* keys under the prefix "u/": two stored searches and the prefix itself
Keys ==
    { <<"u","/","s","1",".","j","s","o","n">>,
      <<"u","/","s","2",".","j","s","o","n">>,
      <<"u","/">> }

\* LastModified of a listed key
Dates == {1, 2}

\* listedObjects.Contents: keys are distinct
Listings ==
    UNION {{c \in [1..n -> [Key : Keys, LastModified : Dates]] :
              \A i, j \in 1..n : i # j => c[i].Key # c[j].Key} : n \in 0..MaxKeys}

\* initS3Client, parseS3BucketConfig or the list call throws; the listing
\* has no Contents; or it has some
ListOutcomes ==
    {[kind |-> "throws", Contents |-> <<>>], [kind |-> "noContents", Contents |-> <<>>]}
    \cup {[kind |-> "listed", Contents |-> c] : c \in Listings}

\* what fetching and parsing one blob comes to: GetObject rejects or the
\* stream breaks; the answer has no Body; JSON.parse throws; the blob is the
\* JSON text null, {} or a stored search
BlobOutcomes == {"fetchError", "noBody", "parseError", "null", "empty", "full"}

\* a stored search, with the fields either route reads
searchData ==
    [searchId       |-> <<"s","-","1">>,
     fileName       |-> "leads.csv",
     recordCount    |-> 3,
     successCount   |-> 2,
     timestamp      |-> "2024-01-01",
     firstName      |-> "Ann",
     lastName       |-> "Lee",
     companyName    |-> "Corp",
     linkedin       |-> "in/ann",
     email          |-> "ann@corp.io",
     personalEmails |-> <<"ann@gmail.com">>]

\* searchData.field || fallback
orElse(data, field, fallback) ==
    IF field \in DOMAIN data THEN data[field] ELSE fallback

\* the entry of a blob that was read and parsed; a field whose value is
\* undefined is not in the JSON answer
FullEntry(route, item, data) ==
    IF route = "bulk"
    THEN [f \in {"key", "searchId", "fileName", "recordCount", "successCount",
                 "lastModified"} \cup ({"timestamp"} \cap DOMAIN data) |->
            CASE f = "key"          -> item.Key
              [] f = "searchId"     -> orElse(data, f, unknown)
              [] f = "fileName"     -> orElse(data, f, "unknown")
              [] f = "recordCount"  -> orElse(data, f, 0)
              [] f = "successCount" -> orElse(data, f, 0)
              [] f = "lastModified" -> item.LastModified
              [] OTHER              -> data[f]]
    ELSE [f \in {"key", "lastModified", "searchId", "firstName", "lastName",
                 "companyName", "personalEmails"}
                \cup ({"linkedin", "email", "timestamp"} \cap DOMAIN data) |->
            CASE f = "key"            -> item.Key
              [] f = "lastModified"   -> item.LastModified
              [] f = "searchId"       -> orElse(data, f, unknown)
              [] f = "personalEmails" -> orElse(data, f, <<>>)
              [] f \in {"firstName", "lastName", "companyName"}
                                      -> orElse(data, f, "unknown")
              [] OTHER                -> data[f]]

\* the searchId the catch block takes from the key: the text after the last
\* "/" without its first ".json", or 'unknown' when that is empty
inferredSearchId(key) ==
    LET keyParts == split(key, "/")
        fileName == keyParts[Len(keyParts)]
        searchId == replace(fileName, <<".","j","s","o","n">>)
    IN  IF searchId = <<>> THEN unknown ELSE searchId

Dropped == [dropped |-> TRUE]
Pending == [pending |-> TRUE]

\* mutant: the catch block gives the blob up
MinimalEntryNone(route, item) == Dropped

\* the entry the catch block returns
MinimalEntry(route, item) ==
    IF route = "bulk"
    THEN [key          |-> item.Key,
          searchId     |-> inferredSearchId(item.Key),
          fileName     |-> "Unknown file",
          recordCount  |-> 0,
          lastModified |-> item.LastModified]
    ELSE [key          |-> item.Key,
          lastModified |-> item.LastModified,
          searchId     |-> inferredSearchId(item.Key),
          firstName    |-> "unknown",
          lastName     |-> "unknown",
          companyName  |-> "unknown"]

\* what the callback of Contents.map resolves to for one item.  Reading a
\* field of the parsed value null throws inside the try block.
entryOf(route, item, blob) ==
    IF blob \in {"fetchError", "parseError", "null"} THEN MinimalEntry(route, item)
    ELSE IF blob = "noBody" THEN Dropped
    ELSE IF blob = "empty" THEN FullEntry(route, item, <<>>)
    ELSE FullEntry(route, item, searchData)

\* .filter(Boolean)
RECURSIVE kept(_)
kept(entries) ==
    IF entries = <<>> THEN <<>>
    ELSE (IF Head(entries) = Dropped THEN <<>> ELSE <<Head(entries)>>)
         \o kept(Tail(entries))

\* one entry put into a list sorted by lastModified, newest first, before
\* the entries that are not newer
RECURSIVE placed(_, _)
placed(entry, sorted) ==
    IF sorted = <<>> THEN <<entry>>
    ELSE IF Head(sorted).lastModified <= entry.lastModified THEN <<entry>> \o sorted
    ELSE <<Head(sorted)>> \o placed(entry, Tail(sorted))

\* .sort((a, b) => b.lastModified - a.lastModified): stable, newest first
RECURSIVE sort(_)
sort(entries) ==
    IF entries = <<>> THEN <<>>
    ELSE placed(Head(entries), sort(Tail(entries)))

ListUnauthorized == [status |-> 401, error |-> "Unauthorized"]
ListFailed == [status |-> 500, error |-> "Failed to retrieve search history.",
               errorType |-> "UNKNOWN"]
ListAnswer(entries) == [status |-> 200, results |-> entries]

\* a call of GET: blobs tells how each item's fetch ended ("pending" until
\* then), entries what its callback resolved to
NoListing ==
    [stage |-> "idle", route |-> "bulk", userId |-> FALSE, contents |-> <<>>,
     blobs |-> <<>>, entries |-> <<>>, response |-> NoResponse]

\* from the call to the awaits of Promise.all, or to an early answer
GET_List ==
    /\ listing.stage = "idle"
    /\ \E outcome \in ListOutcomes :
          listing' =
            IF ~listing.userId
            THEN [listing EXCEPT !.stage = "done", !.response = ListUnauthorized]
            ELSE IF outcome.kind = "throws"
            THEN [listing EXCEPT !.stage = "done", !.response = ListFailed]
            ELSE IF outcome.kind = "noContents" \/ outcome.Contents = <<>>
            THEN [listing EXCEPT !.stage = "done", !.response = ListAnswer(<<>>)]
            ELSE [listing EXCEPT !.stage = "fetching",
                                 !.contents = outcome.Contents,
                                 !.blobs = [k \in 1..Len(outcome.Contents) |-> "pending"],
                                 !.entries = [k \in 1..Len(outcome.Contents) |-> Pending]]
    /\ UNCHANGED endpointVars
    /\ UNCHANGED bulkVars
    /\ UNCHANGED uploadVars

\* the fetch of one item settles; when it is the last one, Promise.all
\* resolves and the handler filters, sorts and answers
GET_ObjectSettled ==
    /\ listing.stage = "fetching"
    /\ \E k \in 1..Len(listing.contents), blob \in BlobOutcomes :
          /\ listing.blobs[k] = "pending"
          /\ LET entries == [listing.entries EXCEPT
                               ![k] = entryOf(listing.route, listing.contents[k], blob)]
                 last == \A j \in 1..Len(entries) : entries[j] # Pending
             IN  listing' = [listing EXCEPT
                               !.blobs[k] = blob,
                               !.entries = entries,
                               !.stage = IF last THEN "done" ELSE "fetching",
                               !.response = IF last THEN ListAnswer(sort(kept(entries)))
                                            ELSE NoResponse]
    /\ UNCHANGED endpointVars
    /\ UNCHANGED bulkVars
    /\ UNCHANGED uploadVars

-----------------------------------------------------------------------------
(* The bulk upload form (components/email/bulk/BulkUploadForm.tsx).        *)

\* the submit button lets this many uploads start
MaxSubmits == 2

UploadMethods == {"standard", "quick", "thorough"}

\* Math.random() * 25, * 8, * 15: the least draw and one close to the
\* greatest, as whole percents
Increments(uploadMethod) ==
    IF uploadMethod = "quick" THEN {0, 24}
    ELSE IF uploadMethod = "thorough" THEN {0, 7}
    ELSE {0, 14}

\* the updater handed to setUploadProgress by the interval callback
newProgress(prev, increment) ==
    IF prev + increment >= 90 THEN 90 ELSE prev + increment

\* no handleSubmit call is running
NoHandler == [pc |-> "idle", progressInterval |-> 0, ok |-> FALSE]

\* the form after mounting: the useState defaults
NoUpload ==
    [file           |-> FALSE,
     isLoading      |-> FALSE,
     uploadSuccess  |-> FALSE,
     uploadProgress |-> 0,
     uploadMethod   |-> "standard",
     timers         |-> {},         \* the intervals setInterval has started and nothing has cleared
     timeouts       |-> 0,          \* removeFile calls scheduled by setTimeout
     handler        |-> NoHandler,  \* the running handleSubmit call: its position and its locals
     onResults      |-> 0,          \* calls of the parent's onResults
     toast          |-> "none",     \* the last toast shown
     finished       |-> "none",     \* how the last handleSubmit call ended
     submits        |-> 0]

\* the user picks a file
handleFileChange ==
    /\ upload' = [upload EXCEPT !.file = TRUE, !.uploadSuccess = FALSE]
    /\ UNCHANGED <<endpointVars, bulkVars, listVars>>

\* the user picks a discovery method in the settings
setUploadMethod ==
    /\ \E m \in UploadMethods :
          /\ m # upload.uploadMethod
          /\ upload' = [upload EXCEPT !.uploadMethod = m]
    /\ UNCHANGED <<endpointVars, bulkVars, listVars>>

\* setFile(null) and the resets that go with it
removed(u) ==
    [u EXCEPT !.file = FALSE, !.uploadProgress = 0, !.uploadSuccess = FALSE]

\* the user removes the selected file
removeFile ==
    /\ upload.file
    /\ upload' = removed(upload)
    /\ UNCHANGED <<endpointVars, bulkVars, listVars>>

\* the reset scheduled two seconds after a success runs
removeFile_Timeout ==
    /\ upload.timeouts > 0
    /\ upload' = [removed(upload) EXCEPT !.timeouts = @ - 1]
    /\ UNCHANGED <<endpointVars, bulkVars, listVars>>

\* the finally block
finally(u, how) ==
    [u EXCEPT !.isLoading = FALSE, !.handler = NoHandler, !.finished = how]

\* The submit button is disabled while isLoading or without a file, so the
\* handler's "Please select a file." return is never taken.  The handler
\* runs up to its first await: the interval is started inside the try block.
handleSubmit_Start ==
    /\ upload.file
    /\ ~upload.isLoading
    /\ upload.submits < MaxSubmits
    /\ LET id == upload.submits + 1 IN
          upload' = [upload EXCEPT
                        !.isLoading = TRUE,
                        !.uploadProgress = 0,
                        !.timers = @ \cup {[id |-> id, uploadMethod |-> upload.uploadMethod]},
                        !.handler = [pc |-> "fetch", progressInterval |-> id, ok |-> FALSE],
                        !.finished = "none",
                        !.submits = id]
    /\ UNCHANGED <<endpointVars, bulkVars, listVars>>

\* a running interval fires; its callback closes over the uploadMethod of
\* the submit that started it
progressInterval_Tick ==
    /\ \E t \in upload.timers : \E increment \in Increments(t.uploadMethod) :
          upload' = [upload EXCEPT
                        !.uploadProgress = newProgress(@, increment)]
    /\ UNCHANGED <<endpointVars, bulkVars, listVars>>

\* fetch('/api/bulk-find-email') settles: a rejection goes to the catch and
\* finally blocks, an answer clears the interval and awaits response.json()
handleSubmit_FetchSettled ==
    /\ upload.handler.pc = "fetch"
    /\ \E threw \in BOOLEAN, isOk \in BOOLEAN :
          upload' =
             IF threw
             THEN finally([upload EXCEPT !.toast = "Failed to process file"], "threw")
             ELSE [upload EXCEPT
                      !.timers = {t \in @ : t.id # upload.handler.progressInterval},
                      !.uploadProgress = 100,
                      !.handler.pc = "json",
                      !.handler.ok = isOk]
    /\ UNCHANGED <<endpointVars, bulkVars, listVars>>

\* response.json() settles: a body that does not parse goes to the catch
\* block, a non-OK answer shows its error, an OK answer is handed to the
\* parent and saved to the history
handleSubmit_JsonSettled ==
    /\ upload.handler.pc = "json"
    /\ \E threw \in BOOLEAN :
          upload' =
             IF threw
             THEN finally([upload EXCEPT !.toast = "Failed to process file"], "threw")
             ELSE IF ~upload.handler.ok
             THEN finally([upload EXCEPT !.toast = "error"], "notOk")
             ELSE [upload EXCEPT
                      !.uploadSuccess = TRUE,
                      !.onResults = 1,
                      !.toast = "Processed",
                      !.handler.pc = "save"]
    /\ UNCHANGED <<endpointVars, bulkVars, listVars>>

\* fetch('/api/bulk-result') settles; a rejection is only logged
handleSubmit_SaveSettled ==
    /\ upload.handler.pc = "save"
    /\ upload' = finally([upload EXCEPT !.timeouts = @ + 1], "ok")
    /\ UNCHANGED <<endpointVars, bulkVars, listVars>>

-----------------------------------------------------------------------------
(* Specifications.                                                         *)

\* one request arrives at the endpoint; no table is open
Init ==
    /\ stage = "idle"
    /\ request \in Requests
    /\ frame = Frame0
    /\ calls = <<>>
    /\ response = NoResponse
    /\ results = <<>>
    /\ filterStatus = "all"
    /\ verifyingEmail = NoRow
    /\ retryingEmail = NoRow
    /\ verifyingBatch = FALSE
    /\ run = NoRun
    /\ pending = <<>>
    /\ lastOp = NoOp
    /\ clock = 1
    /\ clicks = 0
    /\ listing = NoListing
    /\ upload = NoUpload

Next ==
    \/ POST_Receive
    \/ POST_MxResolved
    \/ POST_SesReturned

\* the verification endpoint serving one request
Spec == Init /\ [][Next]_vars

BulkNext ==
    \/ verifyAllEmails_Start
    \/ verifyAllEmails_Response
    \/ verifyEmail_Start
    \/ verifyEmail_Response
    \/ retryFindEmail_Start
    \/ retryFindEmail_Response
    \/ setFilterStatus

\* the table as BulkUploadForm's onResults leaves it: records not yet
\* verified and never retried; no request is being served
BulkInit ==
    /\ stage = "done"
    /\ request = [userId |-> FALSE, bodyOk |-> TRUE, email |-> <<>>]
    /\ frame = Frame0
    /\ calls = <<>>
    /\ response = UnauthorizedResponse
    /\ results \in FreshLists
    /\ filterStatus = "all"
    /\ verifyingEmail = NoRow
    /\ retryingEmail = NoRow
    /\ verifyingBatch = FALSE
    /\ run = NoRun
    /\ pending = <<>>
    /\ lastOp = NoOp
    /\ clock = 1
    /\ clicks = 0
    /\ listing = NoListing
    /\ upload = NoUpload

\* the bulk results table
BulkSpec == BulkInit /\ [][BulkNext]_vars

Next002 ==
    \/ POST002_Receive
    \/ POST002_SesReturned

\* the older verification route serving one request
Spec002 == Init /\ [][Next002]_vars

\* Longest list of the tables on which only "Verify All" is clicked.
MaxBatch == 6

\* lists of records that share one address, none verified yet
BatchLists ==
    {[k \in 1..n |-> FreshRecord(k, e)] : n \in 1..MaxBatch, e \in BulkEmails}

BatchNext ==
    \/ verifyAllEmails_Start
    \/ verifyAllEmails_Response

BatchInit ==
    /\ stage = "done"
    /\ request = [userId |-> FALSE, bodyOk |-> TRUE, email |-> <<>>]
    /\ frame = Frame0
    /\ calls = <<>>
    /\ response = UnauthorizedResponse
    /\ results \in BatchLists
    /\ filterStatus = "all"
    /\ verifyingEmail = NoRow
    /\ retryingEmail = NoRow
    /\ verifyingBatch = FALSE
    /\ run = NoRun
    /\ pending = <<>>
    /\ lastOp = NoOp
    /\ clock = 1
    /\ clicks = 0
    /\ listing = NoListing
    /\ upload = NoUpload

\* a table with a long list on which the user only clicks "Verify All"
BatchSpec == BatchInit /\ [][BatchNext]_vars

\* every request is answered or fails in the end
BatchLiveSpec == BatchSpec /\ WF_vars(verifyAllEmails_Response)

ListNext ==
    \/ GET_List
    \/ GET_ObjectSettled

\* one call of a list route arrives; no table is open, no address is being
\* verified
ListInit ==
    /\ stage = "done"
    /\ request = [userId |-> FALSE, bodyOk |-> TRUE, email |-> <<>>]
    /\ frame = Frame0
    /\ calls = <<>>
    /\ response = UnauthorizedResponse
    /\ results = <<>>
    /\ filterStatus = "all"
    /\ verifyingEmail = NoRow
    /\ retryingEmail = NoRow
    /\ verifyingBatch = FALSE
    /\ run = NoRun
    /\ pending = <<>>
    /\ lastOp = NoOp
    /\ clock = 1
    /\ clicks = 0
    /\ listing \in {[NoListing EXCEPT !.route = r, !.userId = u] :
                       r \in {"bulk", "single"}, u \in BOOLEAN}
    /\ upload = NoUpload

\* the history list routes serving one call
ListSpec == ListInit /\ [][ListNext]_vars

UploadNext ==
    \/ handleFileChange
    \/ setUploadMethod
    \/ removeFile
    \/ removeFile_Timeout
    \/ handleSubmit_Start
    \/ progressInterval_Tick
    \/ handleSubmit_FetchSettled
    \/ handleSubmit_JsonSettled
    \/ handleSubmit_SaveSettled

\* the upload form is mounted; no table is open, no request is being served
UploadInit ==
    /\ stage = "done"
    /\ request = [userId |-> FALSE, bodyOk |-> TRUE, email |-> <<>>]
    /\ frame = Frame0
    /\ calls = <<>>
    /\ response = UnauthorizedResponse
    /\ results = <<>>
    /\ filterStatus = "all"
    /\ verifyingEmail = NoRow
    /\ retryingEmail = NoRow
    /\ verifyingBatch = FALSE
    /\ run = NoRun
    /\ pending = <<>>
    /\ lastOp = NoOp
    /\ clock = 1
    /\ clicks = 0
    /\ listing = NoListing
    /\ upload = NoUpload

\* the bulk upload form
UploadSpec == UploadInit /\ [][UploadNext]_vars

-----------------------------------------------------------------------------
(* Properties of the verification endpoint (under Spec).                   *)

\* the request carries an address and reaches the handler's checks
Addressed == request.userId /\ request.bodyOk /\ request.email # <<>>

WellFormed == Addressed /\ isValidEmail(request.email)
Malformed == Addressed /\ ~isValidEmail(request.email)

Answered == stage = "done"

Called(fn) == \E i \in 1..Len(calls) : calls[i].fn = fn

\* a field of details is false or absent
FalseOrAbsent(field) ==
    field \notin DOMAIN response.details \/ response.details[field] = FALSE

\* C1: a request whose address fails the syntax check makes no MX lookup and
\* no deliverability call, and is answered with details.format = false and
\* valid = false.
C1_MalformedShortCircuits ==
    Malformed =>
        /\ calls = <<>>
        /\ stage \in {"idle", "done"}
        /\ Answered =>
              /\ "details" \in DOMAIN response
              /\ response.details.format = FALSE
              /\ response.valid = FALSE

\* an address with an "@" but no dot in its domain has been answered
C1_Witness ==
    /\ Answered
    /\ Malformed
    /\ Len(split(request.email, "@")) = 2
    /\ \A i \in 1..Len(request.email) : request.email[i] # "."
    /\ response.details.format = FALSE

\* the domain of the request's address is on the disposable list, whatever its case
OnDisposableList ==
    \E i \in 1..Len(disposableDomains) :
        toLowerCase(split(request.email, "@")[2]) = disposableDomains[i]

\* C2: a well-formed address whose domain is on the disposable list, in any
\* letter case, is answered with details.disposable = true and valid = false
\* whatever the MX lookup yields, and the deliverability provider is not called.
C2_DisposableNeverVerified ==
    (WellFormed /\ OnDisposableList) =>
        /\ ~Called("ses.send")
        /\ stage # "ses"
        /\ Answered =>
              /\ response.status = 200
              /\ response.details.disposable = TRUE
              /\ response.valid = FALSE

\* an upper-case disposable domain with mail servers has been answered
C2_Witness ==
    /\ Answered
    /\ WellFormed
    /\ OnDisposableList
    /\ request.email # toLowerCase(request.email)
    /\ response.details.mxRecords = TRUE
    /\ response.details.disposable = TRUE

\* C3 (as claimed): every answer to a well-formed address carries confidence
\* "high" when isVerified, "medium" when not isVerified and mxRecords, "low"
\* when not mxRecords.
C3_ConfidenceEverywhere ==
    (Answered /\ WellFormed /\ response.status = 200) =>
        /\ "confidence" \in DOMAIN response
        /\ response.confidence =
              (IF response.isVerified THEN "high"
               ELSE IF response.details.mxRecords THEN "medium"
               ELSE "low")

\* the MX lookup of the request has been made and came back false
MxFalse == WellFormed /\ Called("resolveMx") /\ stage # "mx" /\ ~frame.hasMx

\* C4 (as claimed): when the MX lookup returns false the answer has
\* valid = false and confidence = "low", and the deliverability provider is
\* not called.
C4_NoMxIsLowConfidence ==
    MxFalse =>
        /\ ~Called("ses.send")
        /\ Answered =>
              /\ response.valid = FALSE
              /\ "confidence" \in DOMAIN response
              /\ response.confidence = "low"

\* C5: in every non-error answer to a well-formed address, valid equals
\* isVerified and not details.disposable.
C5_ValidIsVerifiedAndNotDisposable ==
    (Answered /\ WellFormed /\ response.status = 200) =>
        response.valid = (response.isVerified /\ ~response.details.disposable)

\* a role-based address has been answered valid
C5_Witness ==
    /\ Answered
    /\ WellFormed
    /\ response.status = 200
    /\ response.valid = TRUE
    /\ response.details.roleBased = TRUE

FormatFalse ==
    Answered /\ "details" \in DOMAIN response /\ response.details.format = FALSE

RolePrefixed ==
    \E i \in 1..Len(rolePrefixes) :
        startsWith(toLowerCase(split(request.email, "@")[1]), rolePrefixes[i])

-----------------------------------------------------------------------------
(* Properties of the bulk results table (under BulkSpec).                  *)

Count(seq, v) == Cardinality({j \in 1..Len(seq) : seq[j] = v})

\* list positions verifyAll is to select: an address, and not yet checked
Unchecked(list) ==
    {k \in 1..Len(list) : list[k].foundEmail # Null /\ list[k].isVerified = "undefined"}

\* list positions that were already checked
Checked(list) == {k \in 1..Len(list) : list[k].isVerified # "undefined"}

RunStarted == run.requests # <<>>

\* C7 (as claimed, on lists in which every record has an address, where
\* N - K is the number of records selected): a run makes N - K requests and
\* every record already checked at its start is unchanged in each list the
\* run publishes, the final one included.
C7_CheckedRecordsUntouched ==
    (RunStarted /\ \A k \in 1..Len(run.results) : run.results[k].foundEmail # Null) =>
        /\ run.done =>
              Len(run.requests) = Len(run.results) - Cardinality(Checked(run.results))
        /\ run.published # <<>> =>
              \A k \in Checked(run.results) : run.published[k] = run.results[k]

\* C8: a run requests exactly the addresses of the records that have an
\* address and no isVerified yet, once per such record, and nothing else.
C8_OneRequestPerSelectedRecord ==
    RunStarted =>
        /\ Len(run.requests) <= Cardinality(Unchecked(run.results))
        /\ \A e \in BulkEmails :
              Count(run.requests, e)
                 <= Cardinality({k \in Unchecked(run.results) :
                                    run.results[k].foundEmail = e})
        /\ run.done =>
              /\ Len(run.requests) = Cardinality(Unchecked(run.results))
              /\ \A e \in BulkEmails :
                    Count(run.requests, e)
                       = Cardinality({k \in Unchecked(run.results) :
                                         run.results[k].foundEmail = e})

\* a run over a list holding a checked record and an unchecked one has ended
C8_Witness ==
    /\ run.done
    /\ Len(run.requests) = 1
    /\ Checked(run.results) # {}

\* C9 (as claimed): at the end of a run failedCount is the number of
\* requests that threw.
C9_FailedCountsThrowsOnly ==
    run.done => run.failedCount = Count(run.outcomes, "threw")

\* C9 (amended): a request that throws does not end the run, every selected
\* record is still processed, and at the end failedCount is the number of
\* requests that threw, plus those answered with a non-OK status, plus those
\* answered OK without isVerified = true.
C9_FailedCountsEveryUnverified ==
    /\ verifyingBatch =>
          /\ Len(run.outcomes) < Len(run.emailsToVerify)
          /\ Len(run.requests) = Len(run.outcomes) + 1
    /\ run.done =>
          /\ Len(run.outcomes) = Len(run.emailsToVerify)
          /\ Len(run.requests) = Len(run.emailsToVerify)
          /\ run.failedCount = Count(run.outcomes, "threw")
                               + Count(run.outcomes, "notOk")
                               + Count(run.outcomes, "unverified")
          /\ run.verifiedCount + run.failedCount = Len(run.emailsToVerify)

\* a run whose first request threw went on to a second record, which was
\* answered OK but not verified
C9_Witness ==
    /\ run.done
    /\ run.outcomes = <<"threw", "unverified">>
    /\ run.failedCount = 2

\* C10 (as claimed): after a stored retry answer the record of the clicked
\* row has the answer's foundEmail and personalEmails, no isVerified, no
\* emailQuality, its retryCount one above what it was, and lastRetry stamped.
C10_RetryUpdatesClickedRecord ==
    (lastOp.op = "retry" /\ lastOp.stored) =>
        LET r == results[lastOp.position] IN
        /\ r.foundEmail = lastOp.email
        /\ r.personalEmails = lastOp.personalEmails
        /\ r.isVerified = "undefined"
        /\ r.emailQuality = "undefined"
        /\ r.retryCount = lastOp.retryCount + 1
        /\ r.lastRetry = lastOp.at

-----------------------------------------------------------------------------
(* Status codes, swallowed errors, role accounts and suggestions of the    *)
(* verification endpoint (under Spec).                                     *)

\* how the call to fn came back; "none" when it was not made
ResultOf(fn) ==
    IF Called(fn) THEN calls[CHOOSE i \in 1..Len(calls) : calls[i].fn = fn].result
    ELSE "none"

\* a collaborator of the handler failed: the MX lookup or the provider call
\* rejected, or no provider client could be made
UpstreamFailed ==
    \/ ResultOf("resolveMx") = "error"
    \/ ResultOf("initSESClient") = "throws"
    \/ ResultOf("ses.send") = "error"

\* the request of an authenticated caller has no address or a malformed one
MissingOrMalformed ==
    request.userId /\ request.bodyOk /\ ~isValidEmail(request.email)

\* the body of the request of an authenticated caller is not JSON
UnreadableBody == request.userId /\ ~request.bodyOk

\* C12 (as claimed): a missing or malformed address is answered with a 4xx
\* status, no client input error is answered 2xx or 5xx, and a 5xx status is
\* given only after an upstream failure.
C12_InputErrorsAre4xx ==
    Answered =>
        /\ (MissingOrMalformed \/ UnreadableBody) => response.status \in 400..499
        /\ response.status >= 500 => UpstreamFailed

\* C13: when the MX lookup rejects, the MX check is false and the request is
\* answered 200 with details.mxRecords = false; when the provider call
\* rejects, the request is answered 200 with isVerified = false.  Neither
\* error reaches the handler's catch block.
C13_CheckErrorsAreSwallowed ==
    /\ ResultOf("resolveMx") = "error" =>
          /\ ~frame.hasMx
          /\ Answered
          /\ response.status = 200
          /\ response.details.mxRecords = FALSE
          /\ response.isVerified = FALSE
    /\ ResultOf("ses.send") = "error" =>
          /\ Answered
          /\ response.status = 200
          /\ response.isVerified = FALSE

\* the provider call of a request rejected after a successful MX lookup,
\* and the request has been answered
C13_Witness ==
    /\ Answered
    /\ ResultOf("resolveMx") = "records"
    /\ ResultOf("ses.send") = "error"
    /\ response.status = 200

\* C15: a well-formed, non-disposable address whose lower-cased local part
\* starts with a role prefix, whose domain has MX records and which the
\* provider does not verify, is answered with details.roleBased = true,
\* confidence = "medium" and valid = false.
C15_RoleAccountUnverified ==
    (/\ Answered
     /\ WellFormed
     /\ ~OnDisposableList
     /\ RolePrefixed
     /\ ResultOf("resolveMx") = "records"
     /\ ResultOf("ses.send") = "error") =>
        /\ response.details.roleBased = TRUE
        /\ response.confidence = "medium"
        /\ response.valid = FALSE

\* an address whose local part only starts with a role name ("infoxyz") has
\* been answered after the provider did not verify it
C15_Witness ==
    /\ Answered
    /\ WellFormed
    /\ ~OnDisposableList
    /\ RolePrefixed
    /\ \A i \in 1..Len(rolePrefixes) :
          toLowerCase(split(request.email, "@")[1]) # rolePrefixes[i]
    /\ ResultOf("resolveMx") = "records"
    /\ ResultOf("ses.send") = "error"
    /\ response.confidence = "medium"

\* key is one of the keys written in the dictionary
IsKey(dict, key) == \E i \in 1..Len(dict) : dict[i][1] = key

\* the value written in the dictionary under key
ValueAt(dict, key) == dict[CHOOSE i \in 1..Len(dict) : dict[i][1] = key][2]

\* the suggestion as claimed, for an address with exactly one "@"
ClaimedSuggestion(email) ==
    LET parts  == split(email, "@")
        labels == split(parts[2], ".")
        last   == toLowerCase(labels[Len(labels)])
        rest   == join(SubSeq(labels, 1, Len(labels) - 1), <<".">>)
    IN  IF IsKey(commonDomainTypos, toLowerCase(parts[2]))
        THEN parts[1] \o <<"@">> \o ValueAt(commonDomainTypos, toLowerCase(parts[2]))
        ELSE IF Len(labels) >= 2 /\ IsKey(commonTldTypos, last)
        THEN parts[1] \o <<"@">> \o rest \o <<".">> \o ValueAt(commonTldTypos, last)
        ELSE Null

\* C16 (as claimed): the suggestion of an answer is the local part with the
\* corrected domain when the whole domain is a key of the domain dictionary;
\* else the local part with the rest of the domain and the corrected last
\* label when that label is a key of the TLD dictionary; else there is none.
C16_AtMostOneCorrection ==
    (/\ Answered
     /\ Addressed
     /\ Len(split(request.email, "@")) = 2
     /\ "suggestion" \in DOMAIN response) =>
        response.suggestion = ClaimedSuggestion(request.email)

-----------------------------------------------------------------------------
(* Interleavings on the bulk results table (under BulkSpec).               *)

\* C11 (as claimed): no step, of any operation in any interleaving, lowers
\* the retryCount at a position of the published list.
C11_RetryCountNeverDecreases ==
    [][\A k \in 1..Len(results) :
          results'[k].retryCount >= results[k].retryCount]_vars

-----------------------------------------------------------------------------
(* Properties of the history lists (under ListSpec).                       *)

\* the entries of the answer that stand for the item at position k
EntriesOf(k) ==
    {j \in 1..Len(listing.response.results) :
        listing.response.results[j].key = listing.contents[k].Key}

\* C14: a listing whose blobs were all fetched is answered 200 whatever
\* happened to each blob.  For every key whose fetch or parse threw, the
\* answer holds one entry with the key, its lastModified and the searchId
\* taken from the key (the file name without ".json"; 'unknown' when that
\* is empty) and with nothing read from the blob; for every stored search
\* that was read, it holds the entry with the blob's data.
C14_UnreadableBlobsAreListed ==
    (listing.stage = "done" /\ listing.contents # <<>>) =>
        /\ listing.response.status = 200
        /\ \A k \in 1..Len(listing.contents) :
              LET item == listing.contents[k] IN
              /\ listing.blobs[k] \in {"fetchError", "parseError"} =>
                    /\ Cardinality(EntriesOf(k)) = 1
                    /\ \A j \in EntriesOf(k) :
                          LET e == listing.response.results[j] IN
                          /\ e.lastModified = item.LastModified
                          /\ e.searchId = inferredSearchId(item.Key)
                          /\ DOMAIN e \cap {"timestamp", "successCount", "email",
                                            "linkedin", "personalEmails"} = {}
              /\ listing.blobs[k] = "full" =>
                    /\ Cardinality(EntriesOf(k)) = 1
                    /\ \A j \in EntriesOf(k) :
                          LET e == listing.response.results[j] IN
                          /\ e.lastModified = item.LastModified
                          /\ \A f \in DOMAIN e \ {"key", "lastModified"} :
                                e[f] = searchData[f]
                          /\ "timestamp" \in DOMAIN e

\* a listing of two keys has been answered: one blob did not parse, the
\* other was read
C14_Witness ==
    /\ listing.stage = "done"
    /\ Len(listing.contents) = 2
    /\ \E k \in 1..2 : listing.blobs[k] = "parseError"
    /\ \E k \in 1..2 : listing.blobs[k] = "full"
    /\ Len(listing.response.results) = 2

-----------------------------------------------------------------------------
(* Runs, rows and duplicates on the bulk results table (under BulkSpec).   *)

\* C17: a run has at most one request in flight: one while it is running,
\* none once it has ended.  The requests sent are one more than the answers
\* handled, and the last answer handled has been counted and written to the
\* working set before the next request is sent.
C17_OneRequestInFlight ==
    RunStarted =>
        /\ Len(run.requests) - Len(run.outcomes) = (IF run.done THEN 0 ELSE 1)
        /\ run.done = ~verifyingBatch
        /\ run.i = Len(run.outcomes)
        /\ run.verifiedCount + run.failedCount = Len(run.outcomes)
        /\ LET j == Len(run.outcomes) IN
           (j > 0 /\ run.outcomes[j] = "verified") =>
              run.updatedResults[findIndex(run.results, run.requests[j])].isVerified
                 = "true"

\* the second request of a run is in flight, the first has been answered
C17_Witness ==
    /\ verifyingBatch
    /\ Len(run.requests) = 2
    /\ Len(run.outcomes) = 1
    /\ run.outcomes[1] = "verified"

\* a row request has just been answered and the table stored the answer
RowAnswerStored(op) == op.op \in {"verify", "retry"} /\ op.stored

\* C18 (as claimed): a stored answer to a row's verify or retry changes the
\* record shown in that row and no other record of the list.
C18_RowUpdatesItsRecordOnly ==
    [][RowAnswerStored(lastOp') =>
          \A k \in 1..Len(results) :
              IF k = lastOp'.position
              THEN lastOp'.op = "retry" =>
                      /\ results'[k].foundEmail = lastOp'.email
                      /\ results'[k].lastRetry = lastOp'.at
              ELSE results'[k] = results[k]]_vars

\* C19 (as claimed): when the answers to two retries of different records,
\* both in flight at once, are stored one after the other (no filter
\* active), the list then holds both updates.
C19_ConcurrentRetriesBothKept ==
    [][(/\ lastOp.op = "retry" /\ lastOp.stored
        /\ lastOp'.op = "retry" /\ lastOp'.stored
        /\ lastOp'.position # lastOp.position
        /\ filterStatus = "all") =>
          /\ results'[lastOp.position].foundEmail = lastOp.email
          /\ results'[lastOp.position].retryCount = lastOp.retryCount + 1
          /\ results'[lastOp'.position].foundEmail = lastOp'.email
          /\ results'[lastOp'.position].retryCount = lastOp'.retryCount + 1]_vars

\* C20 (as claimed): at the end of a run whose requests were all answered
\* with a verification result, every selected record has that result, the
\* records that share an address included.
C20_DuplicatesAllUpdated ==
    (run.done /\ \A j \in 1..Len(run.outcomes) : run.outcomes[j] = "verified") =>
        \A k \in Unchecked(run.results) : run.published[k].isVerified = "true"

-----------------------------------------------------------------------------
(* What a run leaves behind (under BulkSpec).                              *)

\* the list positions of the records a run selects, in list order: the
\* record of the j-th request is at the j-th of them
RECURSIVE SelectedFrom(_, _)
SelectedFrom(list, k) ==
    IF k > Len(list) THEN <<>>
    ELSE (IF k \in Unchecked(list) THEN <<k>> ELSE <<>>) \o SelectedFrom(list, k + 1)

Selected == SelectedFrom(run.results, 1)

\* C21 (as claimed): at the end of a run every selected record whose request
\* was answered with an OK status has isVerified true or false, not
\* undefined, also when the endpoint found its address malformed.
C21_OkAnswerLeavesVerifiedState ==
    run.done =>
        \A j \in 1..Len(run.outcomes) :
            run.outcomes[j] \in {"verified", "unverified"} =>
                run.published[Selected[j]].isVerified \in {"true", "false"}

-----------------------------------------------------------------------------
(* Progress and completion of a run (under BatchSpec and BatchLiveSpec).   *)

\* seq lists the numbers of the set S, each once, in rising order
RisingListOf(seq, S) ==
    /\ Len(seq) = Cardinality(S)
    /\ {seq[i] : i \in 1..Len(seq)} = S
    /\ \A i, j \in 1..Len(seq) : i < j => seq[i] < seq[j]

\* C22 (as claimed): inside the loop a run has published after the 5th,
\* 10th, ... handled record and after the last one, and at no other point.
C22_PublishesAfterEveryFifth ==
    RunStarted =>
        LET n == Len(run.emailsToVerify)
        IN  RisingListOf(run.publishedAt,
                         {p \in 1..Len(run.outcomes) :
                             p % PublishInterval = 0 \/ p = n})

\* C22 (amended): inside the loop a run has published after the 1st, 6th,
\* 11th, ... handled record (those whose index, counted from 0, is a multiple
\* of 5) and after the last one, and at no other point.
C22_PublishesAfterFirstOfFive ==
    RunStarted =>
        LET n == Len(run.emailsToVerify)
        IN  RisingListOf(run.publishedAt,
                         {p \in 1..Len(run.outcomes) :
                             (p - 1) % PublishInterval = 0 \/ p = n})

\* a run over six records has ended: it published after the first and after
\* the sixth record only
C22_Witness ==
    /\ run.done
    /\ Len(run.emailsToVerify) = 6
    /\ run.publishedAt = <<1, 6>>


\* C23: a run that has started ends, given that every request is answered
\* or fails: the list of the working set is published and verifyingBatch is
\* cleared, whatever the answers were.
C23_RunCompletes ==
    verifyingBatch ~> (run.done /\ ~verifyingBatch /\ results = run.updatedResults)

\* a run over three records has ended after a request that threw, one that
\* was answered with a non-OK status and one that was verified
C23_Witness ==
    /\ run.done
    /\ ~verifyingBatch
    /\ Len(run.outcomes) = 3
    /\ \A kind \in {"threw", "notOk", "verified"} :
          \E j \in 1..3 : run.outcomes[j] = kind
    /\ results = run.updatedResults


-----------------------------------------------------------------------------
(* Order and failures of a run (under BulkSpec).                           *)

C26_FailedRecordsUnchanged ==
    run.done =>
        \A j \in 1..Len(run.outcomes) :
            run.outcomes[j] \in {"threw", "notOk"} =>
                /\ run.published[Selected[j]] = run.results[Selected[j]]
                /\ toVerify(run.published[Selected[j]])


\* C27: the step that ends a row's verify or retry whose request threw or
\* was answered with a non-OK status leaves the published list as it is,
\* and the step that ends a row's verify or retry, however it ended, clears
\* that operation's marker (verifyingEmail, retryingEmail).
C27_FailedRowRequestPublishesNothing ==
    [][lastOp'.op \in {"verify", "retry"} =>
          /\ lastOp'.failed => results' = results
          /\ lastOp'.op = "verify" => verifyingEmail' = NoRow
          /\ lastOp'.op = "retry" => retryingEmail' = NoRow]_vars

\* a retry of a row has just ended with a failed request: its marker is
\* cleared and the record's retryCount is still 0
C27_Witness ==
    /\ lastOp.op = "retry"
    /\ lastOp.failed
    /\ retryingEmail = NoRow
    /\ results[lastOp.position].retryCount = 0


-----------------------------------------------------------------------------
(* The two verification routes side by side (under Spec and Spec002).      *)

\* where in calls the calls to fn stand
CallsTo(fn) == {i \in 1..Len(calls) : calls[i].fn = fn}

\* C25 (as claimed): a request makes at most one MX lookup, and only for an
\* address that passed the syntax check; it makes at most one provider call,
\* and only after an MX lookup for the address's domain came back true and
\* the domain was found not to be disposable.
C25_ProviderOnlyAfterMx ==
    /\ Cardinality(CallsTo("resolveMx")) <= 1
    /\ Cardinality(CallsTo("ses.send")) <= 1
    /\ CallsTo("resolveMx") # {} => WellFormed
    /\ \A j \in CallsTo("ses.send") :
          /\ calls[j].arg = request.email
          /\ ~OnDisposableList
          /\ \E i \in CallsTo("resolveMx") :
                /\ i < j
                /\ calls[i].arg = split(request.email, "@")[2]
                /\ calls[i].result = "records"

\* C28 (as claimed): for a well-formed address the older route answers with
\* the emailQuality the current route answers with: "personal" exactly when
\* the lower-cased domain is one of the four providers, else "business".
C28_SameEmailQuality ==
    (Answered /\ WellFormed /\ response.status = 200) =>
        /\ response.emailQuality
              = Serve(request, "records", "client", "sent").emailQuality
        /\ response.emailQuality =
              (IF includes(personalDomains, toLowerCase(split(request.email, "@")[2]))
               THEN "personal" ELSE "business")


\* C29: when the current route answers a well-formed address that has a
\* suggestion, its MX lookup was made for the domain of the address as sent
\* and its provider call for the address as sent, and valid, isVerified and
\* confidence are what the checks on the address as sent yield: isVerified
\* is whether the provider accepted, valid is isVerified and not disposable,
\* confidence is "high" when verified, else "medium".
C29_SuggestionLeavesChecksAlone ==
    (WellFormed /\ suggestEmailCorrection(request.email) # Null) =>
        /\ \A i \in CallsTo("resolveMx") : calls[i].arg = split(request.email, "@")[2]
        /\ \A j \in CallsTo("ses.send") : calls[j].arg = request.email
        /\ (Answered /\ response.status = 200) =>
              /\ response.suggestion = suggestEmailCorrection(request.email)
              /\ response.isVerified = (ResultOf("ses.send") = "sent")
              /\ response.valid = (ResultOf("ses.send") = "sent" /\ ~OnDisposableList)
              /\ "confidence" \in DOMAIN response =>
                    response.confidence =
                       (IF ResultOf("ses.send") = "sent" THEN "high" ELSE "medium")

\* "bob@gamil.com" has been answered as verified, with the suggestion
\* "bob@gmail.com"; the lookup was made for gamil.com
C29_Witness ==
    /\ Answered
    /\ WellFormed
    /\ response.status = 200
    /\ response.suggestion = <<"b","o","b","@","g","m","a","i","l",".","c","o","m">>
    /\ calls[1].arg = <<"g","a","m","i","l",".","c","o","m">>
    /\ response.isVerified = TRUE
    /\ response.valid = TRUE


\* C30: once a handleSubmit call has finished, whether the discovery request
\* was answered OK, answered non-OK or threw, the interval that call started
\* is no longer running and isLoading is false.
C30_TimerStoppedAfterSubmit ==
    (upload.handler.pc = "idle" /\ upload.finished # "none")
        => /\ \A t \in upload.timers : t.id # upload.submits
           /\ ~upload.isLoading

=============================================================================
